---- MODULE Spec2Model ----
(***************************************************************************)
(* Model of the shiok-scout scoring pipeline: the raw listings collected   *)
(* by the scraping loop of train.main with its resume log and checkpoints, *)
(* the feature builder preprocess_data, the encoder, the fit and the       *)
(* two files it persists (restaurants_with_residuals.parquet and           *)
(* rating_model.pkl), the scripts retrain.main, deduce_cuisine.main and    *)
(* classify_with_llm.main that rewrite the dataset, and the front-end's    *)
(* load_data, marker tiers and badge.                                      *)
(*                                                                         *)
(* Coordinates are integers in units of 0.0001 degree (1.44 deg = 14400,   *)
(* 103.6 deg = 1036000).  Distances are integers in metres in the          *)
(* projected frame EPSG:3414.  Ratings are integers in tenths of a star,   *)
(* residuals shown by the front-end integers in thousandths of a star.     *)
(***************************************************************************)
EXTENDS Integers, Sequences, FiniteSets, TLC

VARIABLES
    all_restaurants,    \* train.main: the list of raw listings collected so far
    planning_area_gdf,  \* the zone reference handed to preprocess_data
    scored,             \* restaurants_with_residuals.parquet: [exists, rows]
    loaded,             \* the frame returned by the last load_data call
    last_op,            \* the operation that ran last
    df,                 \* preprocess_data: its input frame
    gdf,                \* preprocess_data: the frame it returns for df
    hawker_gdf,         \* hawker-centres file: [exists, points]
    model_pkl,          \* rating_model.pkl: [exists, model]
    run,                \* the run of train.main or retrain.main under way
    filtered_df,        \* app main: the rows prepared for the map layer
    raw_parquet,        \* restaurants_raw.parquet: [exists, rows]
    processed_seeds_json, \* processed_seeds.json: [exists, indices]
    loop,               \* train.main: the scraping loop of the run under way
    fold                \* the pipeline fitted last and the row it predicted

vars == <<all_restaurants, planning_area_gdf, scored, loaded, last_op, df, gdf,
          hawker_gdf, model_pkl, run, filtered_df,
          raw_parquet, processed_seeds_json, loop, fold>>

(***************************************************************************)
(* Bounds                                                                  *)
(***************************************************************************)
MaxListings == 3
MaxRunListings == 2
MaxShown == 2
ResidualSpan == 5
MaxFoldRows == 2
NumSeeds == 51
MaxRuns == 2

(***************************************************************************)
(* Program constants                                                       *)
(***************************************************************************)
LAT_MIN == 11500
LAT_MAX == 14800
LON_MIN == 1036000
LON_MAX == 1040500
BORDER_LAT == 14400
CUTOFF_LAT == 14700
BORDER_MAX_DISTANCE == 100
MAINLAND_MAX_DISTANCE == 2000
DENSITY_RADIUS == 200
MetresPerUnit == 11
HAWKER_THRESHOLD == 50
NO_HAWKER_DIST == 9999
TOP_CATEGORIES == 20
GEM_RESIDUAL == 500
FAIR_RESIDUAL == 0
OVERVALUED_RESIDUAL == -500
CHAIN_COUNT == 2
UNKNOWN_VALUE == -1
SAVE_EVERY == 50

NaN == "NaN"
\* A latitude or longitude that is missing (NaN) in a listing.
NaNCoord == -999999
OutsideSingapore == "Outside Singapore"
Unknown == "Unknown"
\* planning_area_gdf: None, or the zones of the reference file.
NoZones == [given |-> FALSE, zones |-> <<>>]
ZoneRef(zones) == [given |-> TRUE, zones |-> zones]
\* The hawker-centres file: missing, or the points it holds, in degrees
\* (EPSG:4326, a point [lat, lon]) or already projected (EPSG:3414, a point
\* [x, y] in metres).
NoHawkerFile == [exists |-> FALSE, crs |-> "EPSG:4326", points |-> <<>>]
HawkerRef(points) == [exists |-> TRUE, crs |-> "EPSG:4326", points |-> points]
HawkerRefProjected(coords) ==
    [exists |-> TRUE, crs |-> "EPSG:3414", points |-> coords]

(***************************************************************************)
(* Geometry                                                                *)
(***************************************************************************)
\* to_crs("EPSG:3414"): SVY21 is a transverse Mercator projection with origin
\* 1.366667 N, 103.833333 E and false origin (28001.642, 38744.572).  Over the
\* extent of the island it is linear to well under a metre per 0.0001 degree,
\* which is about 11 m on both axes.
ProjX(lon) == 28002 + (lon - 1038333) * MetresPerUnit
ProjY(lat) == 38745 + (lat - 13667) * MetresPerUnit

Point(lon, lat) == [lat |-> lat, lon |-> lon]

AbsDiff(a, b) == IF a < b THEN b - a ELSE a - b

\* BallTree(metric='euclidean').query_radius(r): the points at distance <= r.
\* The squares are taken only when both axis gaps are within r, which keeps
\* the arithmetic inside 32 bits.
WithinRadius(g1, g2, r) ==
    LET dx == AbsDiff(ProjX(g1.lon), ProjX(g2.lon))
        dy == AbsDiff(ProjY(g1.lat), ProjY(g2.lat))
    IN  /\ dx <= r
        /\ dy <= r
        /\ dx * dx + dy * dy <= r * r

StrictlyWithinRadius(g1, g2, r) ==
    LET dx == AbsDiff(ProjX(g1.lon), ProjX(g2.lon))
        dy == AbsDiff(ProjY(g1.lat), ProjY(g2.lat))
    IN  /\ dx < r
        /\ dy < r
        /\ dx * dx + dy * dy < r * r

\* The integer square root, by bisection over 0..46340 (46340^2 < 2^31).
RECURSIVE ISqrtBetween(_, _, _)
ISqrtBetween(v, lo, hi) ==
    IF lo = hi THEN lo
    ELSE LET mid == (lo + hi + 1) \div 2
         IN  IF mid * mid <= v THEN ISqrtBetween(v, mid, hi)
             ELSE ISqrtBetween(v, lo, mid - 1)

ISqrt(v) == ISqrtBetween(v, 0, 46340)

\* The euclidean distance of two projected points in whole metres, rounded
\* down.  An axis gap beyond 32767 m is taken as 32767 m, which keeps the sum
\* of the squares inside 32 bits; no two points of the model are that far
\* apart.
DistanceXY(p, q) ==
    LET gx == AbsDiff(p.x, q.x)
        gy == AbsDiff(p.y, q.y)
        dx == IF gx > 32767 THEN 32767 ELSE gx
        dy == IF gy > 32767 THEN 32767 ELSE gy
    IN  ISqrt(dx * dx + dy * dy)

\* to_crs("EPSG:3414") of one point.
to_crs_3414(g) == [x |-> ProjX(g.lon), y |-> ProjY(g.lat)]

Distance(g1, g2) == DistanceXY(to_crs_3414(g1), to_crs_3414(g2))

\* A zone is a named polygon; the reference data of the model are rectangles
\* [lat_lo, lat_hi] x [lon_lo, lon_hi].
Zone(name, lat_lo, lat_hi, lon_lo, lon_hi) ==
    [name |-> name, lat_lo |-> lat_lo, lat_hi |-> lat_hi,
     lon_lo |-> lon_lo, lon_hi |-> lon_hi]

\* predicate='within': the point lies in the interior of the polygon.
Within(g, z) ==
    /\ z.lat_lo < g.lat /\ g.lat < z.lat_hi
    /\ z.lon_lo < g.lon /\ g.lon < z.lon_hi

AxisGap(v, lo, hi) == IF v < lo THEN lo - v ELSE IF v > hi THEN v - hi ELSE 0

\* Squared planar distance in metres from a point to a zone polygon, both
\* projected to EPSG:3414; any distance beyond cap is reported as cap^2 + 1.
ZoneDistSq(g, z, cap) ==
    LET dx == AxisGap(ProjX(g.lon), ProjX(z.lon_lo), ProjX(z.lon_hi))
        dy == AxisGap(ProjY(g.lat), ProjY(z.lat_lo), ProjY(z.lat_hi))
    IN  IF dx > cap \/ dy > cap THEN cap * cap + 1 ELSE dx * dx + dy * dy

(***************************************************************************)
(* Listings and rows                                                       *)
(***************************************************************************)
\* The url of a listing, reduced to what load_data reads from it: the pin
\* '!3d<lat>' and the pin '!4d<lon>', each present or not.
Url(has3d, lat3d, has4d, lon4d) ==
    [has3d |-> has3d, lat3d |-> lat3d, has4d |-> has4d, lon4d |-> lon4d]

NoPin == Url(FALSE, 0, FALSE, 0)
Pin(lat, lon) == Url(TRUE, lat, TRUE, lon)

\* One dict appended to results by scrape_location; the category is the
\* placeholder 'Restaurant'.
Listing(name, rating, review_count, latitude, longitude, url) ==
    [name |-> name, latitude |-> latitude, longitude |-> longitude,
     rating |-> rating, review_count |-> review_count,
     category |-> "Restaurant", url |-> url]

\* pd.DataFrame(all_restaurants) turned into a GeoDataFrame: row i carries the
\* index label i and the point (longitude, latitude).  The columns later
\* steps add are null until they are set.
GeoRow(i, l) ==
    [idx |-> i, name |-> l.name, rating |-> l.rating,
     review_count |-> l.review_count, category |-> l.category,
     latitude |-> l.latitude, longitude |-> l.longitude, url |-> l.url,
     geometry |-> Point(l.longitude, l.latitude),
     is_chain |-> NaN, dist_to_hawker |-> NaN, is_hawker |-> NaN, category_encoded |-> NaN,
     cluster_density |-> 0, planning_area |-> NaN,
     predicted_rating |-> NaN, residual |-> NaN]

GeoDataFrame(frame) == [i \in 1..Len(frame) |-> GeoRow(i, frame[i])]

RECURSIVE Concat(_)
Concat(seqs) == IF seqs = <<>> THEN <<>> ELSE Head(seqs) \o Concat(Tail(seqs))

(***************************************************************************)
(* preprocess_data                                                         *)
(***************************************************************************)
\* np.column_stack of the projected coordinates holds a NaN when a listing
\* lacks its latitude or longitude, and BallTree rejects such an array with a
\* ValueError (line 70, or line 53 with a non-empty hawker reference).
PreprocessRaises(frame) ==
    \E i \in 1..Len(frame) :
        frame[i].latitude = NaNCoord \/ frame[i].longitude = NaNCoord

\* As name_count over a frame that holds each name once, as a frame does
\* after a deduplication by name.
name_count_deduplicated(rows, name) ==
    IF \E i \in 1..Len(rows) : rows[i].name = name THEN 1 ELSE 0

\* gdf['name'].value_counts(): the number of rows of the frame with the name.
name_count(rows, name) ==
    Cardinality({i \in 1..Len(rows) : rows[i].name = name})

\* 2. Is_Chain
WithIsChain(rows) ==
    [i \in 1..Len(rows) |->
        [rows[i] EXCEPT
            !.is_chain = name_count(rows, rows[i].name) > CHAIN_COUNT]]

MinOf(S) == CHOOSE d \in S : \A e \in S : d <= e

\* hawker_coords: the points of the hawker reference in EPSG:3414, projected
\* unless the file is in that frame already (lines 36-39, 48).
hawker_coords(hawker) ==
    IF hawker.crs # "EPSG:3414"
    THEN [j \in 1..Len(hawker.points) |-> to_crs_3414(hawker.points[j])]
    ELSE hawker.points

\* tree.query(restaurant_coords, k=1): the distance to the nearest point of
\* the hawker reference.
HawkerDistance(g, coords) ==
    MinOf({DistanceXY(to_crs_3414(g), coords[j]) : j \in 1..Len(coords)})

\* As HawkerRow with the threshold itself counted as adjacent.
HawkerRowInclusive(r, dist) ==
    [r EXCEPT !.dist_to_hawker = dist, !.is_hawker = dist <= HAWKER_THRESHOLD]

\* gdf['dist_to_hawker'] = dist.flatten()
\* gdf['is_hawker'] = gdf['dist_to_hawker'] < 50.0
HawkerRow(r, dist) ==
    [r EXCEPT !.dist_to_hawker = dist, !.is_hawker = dist < HAWKER_THRESHOLD]

\* 3. Is_Hawker
WithHawker(rows, points) ==
    IF Len(points) > 0
    THEN [i \in 1..Len(rows) |->
             HawkerRow(rows[i], HawkerDistance(rows[i].geometry, points))]
    ELSE [i \in 1..Len(rows) |->
             [rows[i] EXCEPT !.is_hawker = FALSE,
                             !.dist_to_hawker = NO_HAWKER_DIST]]

\* gdf['category'].value_counts().nlargest(20).index
top_categories(rows) ==
    LET cats == {rows[i].category : i \in 1..Len(rows)}
        count(c) == Cardinality({i \in 1..Len(rows) : rows[i].category = c})
    IN  IF Cardinality(cats) <= TOP_CATEGORIES THEN cats
        ELSE CHOOSE S \in SUBSET cats :
                 /\ Cardinality(S) = TOP_CATEGORIES
                 /\ \A c \in S : \A d \in cats \ S : count(c) >= count(d)

\* 4. Category Encoded
WithCategoryEncoded(rows) ==
    [i \in 1..Len(rows) |->
        [rows[i] EXCEPT !.category_encoded =
            IF rows[i].category \in top_categories(rows)
            THEN rows[i].category ELSE "Other"]]

\* As query_radius_count with the tree holding only the rows up to row i.
query_radius_count_prefix(rows, i) ==
    Cardinality({j \in 1..i :
        WithinRadius(rows[i].geometry, rows[j].geometry, DENSITY_RADIUS)})

\* tree_self.query_radius(restaurant_coords, r=200.0, count_only=True): for
\* each row the number of rows of the frame within the radius, itself included.
query_radius_count(rows, i) ==
    Cardinality({j \in 1..Len(rows) :
        WithinRadius(rows[i].geometry, rows[j].geometry, DENSITY_RADIUS)})

\* As ClusterDensity with the row itself left in the count.
ClusterDensityWithSelf(rows, i) == query_radius_count(rows, i)

\* gdf['cluster_density'] = counts - 1
ClusterDensity(rows, i) == query_radius_count(rows, i) - 1

WithClusterDensity(rows) ==
    [i \in 1..Len(rows) |->
        [rows[i] EXCEPT !.cluster_density = ClusterDensity(rows, i)]]

\* The manual coordinate fixes: name.str.contains(<pattern>, case=False) over
\* the names of the model, and the coordinate each pattern is moved to.
ManualFixNames ==
    {"Luss Restaurant & Bar", "9 Plus Bistro", "Wu You Eating Place",
     "Oasis Hideout", "L Bistro"}

ManualFixPoint(name) ==
    CASE name = "Luss Restaurant & Bar" -> Point(1037925, 12915)
      [] name = "9 Plus Bistro"         -> Point(1037810, 12830)
      [] name = "Wu You Eating Place"   -> Point(1038610, 13130)
      [] name = "Oasis Hideout"         -> Point(1037800, 13050)
      [] name = "L Bistro"              -> Point(1037430, 13330)

ManualFix(r) ==
    IF r.name \in ManualFixNames
    THEN [r EXCEPT !.latitude = ManualFixPoint(r.name).lat,
                   !.longitude = ManualFixPoint(r.name).lon,
                   !.geometry = ManualFixPoint(r.name)]
    ELSE r

\* gpd.sjoin(gdf, zones, how='left', predicate='within') for one row: one
\* joined row per zone the point lies within, or one row with a null
\* planning_area when it lies within none.
SjoinWithinRow(r, zones) ==
    LET hits == SelectSeq([j \in 1..Len(zones) |-> j],
                          LAMBDA j : Within(r.geometry, zones[j]))
    IN  IF hits = <<>>
        THEN <<[r EXCEPT !.planning_area = NaN]>>
        ELSE [k \in 1..Len(hits) |->
                 [r EXCEPT !.planning_area = zones[hits[k]].name]]

SjoinWithin(rows, zones) ==
    Concat([i \in 1..Len(rows) |-> SjoinWithinRow(rows[i], zones)])

\* As mask_border with every unresolved row sent to the mainland pass.
mask_border_none(r) == FALSE

\* mask_border = gdf_unknown['latitude'] > 1.44
mask_border(r) == r.latitude > BORDER_LAT

\* gpd.sjoin_nearest(..., max_distance=m) for one row: the zones at the least
\* distance among those within m, in the order of the zone reference.
SjoinNearestRow(r, zones, m) ==
    LET d(j) == ZoneDistSq(r.geometry, zones[j], m)
        near == {j \in 1..Len(zones) : d(j) <= m * m}
        best == {j \in near : \A k \in near : d(j) <= d(k)}
    IN  SelectSeq([j \in 1..Len(zones) |-> j], LAMBDA j : j \in best)

\* The join result deduplicated with index.duplicated(keep='first'), and the
\* name it assigns: the first matched zone, or null when nothing matched.
NearestZoneName(r, zones, m) ==
    LET matches == SjoinNearestRow(r, zones, m)
    IN  IF matches = <<>> THEN NaN ELSE zones[matches[1]].name

\* As FallbackRow with the two passes run over every row of the join.
FallbackRowEveryRow(r, zones) ==
    IF mask_border(r)
    THEN [r EXCEPT !.planning_area =
              NearestZoneName(r, zones, BORDER_MAX_DISTANCE)]
    ELSE [r EXCEPT !.planning_area =
              NearestZoneName(r, zones, MAINLAND_MAX_DISTANCE)]

\* Step 2: the border pass (100 m) and the mainland pass (2000 m) over the rows
\* whose planning_area is null after the exact join.
FallbackRow(r, zones) ==
    IF r.planning_area # NaN THEN r
    ELSE IF mask_border(r)
         THEN [r EXCEPT !.planning_area =
                   NearestZoneName(r, zones, BORDER_MAX_DISTANCE)]
         ELSE [r EXCEPT !.planning_area =
                   NearestZoneName(r, zones, MAINLAND_MAX_DISTANCE)]

\* As FillNa with the fill left out.
FillNaSkipped(r) == r

\* gdf_joined['planning_area'].fillna('Outside Singapore')
FillNa(r) ==
    IF r.planning_area = NaN THEN [r EXCEPT !.planning_area = OutsideSingapore]
    ELSE r

\* As HardCutoff with the cutoff left out.
HardCutoffSkipped(r) == r

\* gdf_joined.loc[gdf_joined['latitude'] > 1.47, 'planning_area'] = ...
HardCutoff(r) ==
    IF r.latitude > CUTOFF_LAT THEN [r EXCEPT !.planning_area = OutsideSingapore]
    ELSE r

ResolveRow(r, zones) == HardCutoff(FillNa(FallbackRow(r, zones)))

\* 7. Planning Area
PlanningArea(rows, ref) ==
    IF ref.given
    THEN LET fixed  == [i \in 1..Len(rows) |-> ManualFix(rows[i])]
             joined == SjoinWithin(fixed, ref.zones)
         IN  [i \in 1..Len(joined) |-> ResolveRow(joined[i], ref.zones)]
    ELSE [i \in 1..Len(rows) |-> [rows[i] EXCEPT !.planning_area = Unknown]]

\* The frame preprocess_data returns when it does not raise.
preprocess_data(frame, hawker, ref) ==
    PlanningArea(
        WithClusterDensity(
            WithCategoryEncoded(
                WithHawker(WithIsChain(GeoDataFrame(frame)),
                           hawker_coords(hawker)))),
        ref)

(***************************************************************************)
(* The fit of train.main and retrain.main                                  *)
(***************************************************************************)
\* X = gdf[features] for one row.  log_reviews is log1p of review_count, a
\* strictly increasing function, and is carried as its argument.
TrainFeatures(r) ==
    [log_reviews |-> r.review_count, is_chain |-> r.is_chain,
     cluster_density |-> r.cluster_density,
     category_encoded |-> r.category_encoded, planning_area |-> r.planning_area]

RetrainFeatures(r) ==
    [log_reviews |-> r.review_count, is_chain |-> r.is_chain,
     cluster_density |-> r.cluster_density,
     category |-> r.category, planning_area |-> r.planning_area]

FeaturesOf(script, r) ==
    IF script = "train" THEN TrainFeatures(r) ELSE RetrainFeatures(r)

\* model.fit(X, y): the fitted pipeline is a function of the script that built
\* it and of the frame it was fitted on.
Fit(script, rows) ==
    [script |-> script,
     X |-> [i \in 1..Len(rows) |-> FeaturesOf(script, rows[i])],
     y |-> [i \in 1..Len(rows) |-> rows[i].rating]]

RECURSIVE Sum(_)
Sum(seq) == IF seq = <<>> THEN 0 ELSE Head(seq) + Sum(Tail(seq))

\* model.predict(X) for one row, in thousandths of a star.
\* HistGradientBoostingRegressor keeps its default min_samples_leaf = 20, so
\* on a frame of fewer than 40 rows no node can be split: every tree is a
\* single leaf of value 0 and the prediction is the baseline, the mean of y,
\* whatever the features x.
Predict(model, x) == (Sum(model.y) * 100) \div Len(model.y)

\* categorical_features of the script that built the pipeline.
categorical_features(script) ==
    IF script = "train" THEN {"category_encoded", "planning_area"}
    ELSE {"category", "planning_area"}

\* The values a categorical column takes in the model, in the order np.unique
\* sorts them.
SortedValues ==
    <<"Cafe", "Fast Food", "Korean", "Other", "Outside Singapore",
      "Restaurant", "Unknown", "X", "Y">>

PositionOf(v) == CHOOSE j \in 1..Len(SortedValues) : SortedValues[j] = v

\* OrdinalEncoder.fit: categories_ of a column, the values seen in X.
categories_(model, column) ==
    {model.X[i][column] : i \in 1..Len(model.X)}

\* As OrdinalEncode with an unseen value given the code of the first category.
OrdinalEncodeUnknownAsFirst(model, column, v) ==
    IF v \in categories_(model, column)
    THEN Cardinality({c \in categories_(model, column) :
                         PositionOf(c) < PositionOf(v)})
    ELSE 0

\* OrdinalEncoder(handle_unknown='use_encoded_value', unknown_value=-1)
\* .transform for one value: the rank of a seen value among the sorted
\* categories, and unknown_value for a value not seen during fit.
OrdinalEncode(model, column, v) ==
    IF v \in categories_(model, column)
    THEN Cardinality({c \in categories_(model, column) :
                         PositionOf(c) < PositionOf(v)})
    ELSE UNKNOWN_VALUE

\* preprocessor.transform for one row: the codes of its categorical columns.
Transform(model, x) ==
    [column \in categorical_features(model.script) |->
        OrdinalEncode(model, column, x[column])]

\* Pipeline.predict for one row: the codes the regressor is handed and the
\* rating it returns.  The regressor sends a code it has not seen, the
\* negative ones included, down the branch of the missing values.
PipelinePredict(model, x) ==
    [codes |-> Transform(model, x), rating |-> Predict(model, x)]

\* gdf['predicted_rating'] = model.predict(X)
\* gdf['residual'] = gdf['rating'] - gdf['predicted_rating']
ResidualRow(r, predicted) ==
    [r EXCEPT !.predicted_rating = predicted,
              !.residual = r.rating * 100 - predicted]

WithResiduals(rows, model) ==
    [i \in 1..Len(rows) |->
        ResidualRow(rows[i], Predict(model, FeaturesOf(model.script, rows[i])))]

\* The frame with its residuals and the model, as the script holds them
\* before it saves anything.
FittedWith(rows, model) ==
    [pc |-> "fitted", gdf |-> WithResiduals(rows, model), model |-> model]

\* model.fit(X, y) on the frame, then the residuals of the frame.
Fitted(script, rows) == FittedWith(rows, Fit(script, rows))

\* As train_main without the return on an empty list of restaurants.
train_main_no_empty_return(frame, hawker, ref, has_rating) ==
    IF ~hawker.exists
    THEN [pc |-> "returned", gdf |-> <<>>, model |-> NaN]
    ELSE IF PreprocessRaises(frame) \/ ~has_rating
    THEN [pc |-> "failed", gdf |-> <<>>, model |-> NaN]
    ELSE Fitted("train", preprocess_data(frame, hawker, ref))

\* train.main from the end of the scraping loop to the residuals: it returns
\* when the list is empty (124-126) or the hawker file cannot be read
\* (138-142), it is ended by the exception of preprocess_data (152) or by the
\* KeyError of gdf['rating'] when the frame has no rating column (159), and
\* otherwise holds the frame with residuals and the fitted model.  The
\* cross-validation and the permutation importance only print; they need a
\* frame of at least five rows, which the frames of the model stand for.
train_main(frame, hawker, ref, has_rating) ==
    IF frame = <<>> \/ ~hawker.exists
    THEN [pc |-> "returned", gdf |-> <<>>, model |-> NaN]
    ELSE IF PreprocessRaises(frame) \/ ~has_rating
    THEN [pc |-> "failed", gdf |-> <<>>, model |-> NaN]
    ELSE Fitted("train", preprocess_data(frame, hawker, ref))

\* gdf.dropna(subset=['rating', 'category', 'planning_area']); the rating of a
\* listing is never null, scrape_location keeps a listing only with a rating.
DropNa(rows) ==
    SelectSeq(rows, LAMBDA r : r.category # NaN /\ r.planning_area # NaN)

\* retrain.main up to the residuals: read_parquet raises when the dataset is
\* missing, and the fit raises on a frame without rows.
retrain_main(file) ==
    IF ~file.exists \/ DropNa(file.rows) = <<>>
    THEN [pc |-> "failed", gdf |-> <<>>, model |-> NaN]
    ELSE Fitted("retrain", DropNa(file.rows))

(***************************************************************************)
(* Deduplication                                                           *)
(***************************************************************************)
\* df.sort_values('review_count', ascending=False) followed by
\* df.drop_duplicates(subset=['name'], keep='first'), over the rows at the
\* positions S with the names in seen already kept.  The default sort kind is
\* not stable, so rows of equal review_count may come out of the sort in any
\* order; the row that survives for a name is the first of that name in the
\* sorted order, and the survivors keep the sorted order.  The next survivor
\* is therefore any row of greatest review_count among the rows whose name
\* has not been kept yet.  The set of the frames the two statements can
\* produce.
RECURSIVE SortAndDropDuplicates(_, _, _)

\* As SortAndDropDuplicates with the sort ascending.
RECURSIVE SortAscendingAndDropDuplicates(_, _, _)
SortAscendingAndDropDuplicates(rows, S, seen) ==
    LET unseen == {i \in S : rows[i].name \notin seen}
        top == {i \in unseen :
                   \A j \in unseen : rows[i].review_count <= rows[j].review_count}
    IN  IF unseen = {} THEN {<<>>}
        ELSE UNION {{<<rows[i]>> \o t :
                        t \in SortAscendingAndDropDuplicates(
                                  rows, unseen \ {i}, seen \cup {rows[i].name})} :
                    i \in top}

SortAndDropDuplicates(rows, S, seen) ==
    LET unseen == {i \in S : rows[i].name \notin seen}
        top == {i \in unseen :
                   \A j \in unseen : rows[i].review_count >= rows[j].review_count}
    IN  IF unseen = {} THEN {<<>>}
        ELSE UNION {{<<rows[i]>> \o t :
                        t \in SortAndDropDuplicates(rows, unseen \ {i},
                                                    seen \cup {rows[i].name})} :
                    i \in top}

Deduplicate(rows) == SortAndDropDuplicates(rows, 1..Len(rows), {})

(***************************************************************************)
(* deduce_cuisine and classify_with_llm                                    *)
(***************************************************************************)
\* deduce_cuisine(name) over the names of the listings of the pipeline: 'kfc'
\* is a keyword of 'Fast Food', the other names hold no keyword.
deduce_cuisine(name) ==
    IF name = "KFC" THEN "Fast Food" ELSE "Other"

\* gdf['category'] = gdf['name'].apply(deduce_cuisine)
WithDeducedCuisine(rows) ==
    [i \in 1..Len(rows) |->
        [rows[i] EXCEPT !.category = deduce_cuisine(rows[i].name)]]

\* The names classify_with_llm.main sends to the language model.
OtherNames(rows) ==
    {rows[i].name : i \in {j \in 1..Len(rows) : rows[j].category = "Other"}}

\* The dicts classify_with_llm can return for the names it is given: for each
\* name a category of CUISINE_CATEGORIES, here 'Cafe', or no entry (NaN after
\* the map, which the fill turns into 'Other' as it does the answer 'Other').
Classifications(names) == [names -> {"Cafe", NaN}]

\* gdf.loc[gdf['category'] == 'Other', 'category'] = ...map(classifications)
\* gdf['category'] = gdf['category'].fillna('Other')
WithClassification(rows, classifications) ==
    [i \in 1..Len(rows) |->
        IF rows[i].category = "Other"
        THEN [rows[i] EXCEPT !.category =
                 IF classifications[rows[i].name] = NaN THEN "Other"
                 ELSE classifications[rows[i].name]]
        ELSE rows[i]]

(***************************************************************************)
(* load_data                                                               *)
(***************************************************************************)
\* As extract_coords_from_url with the latitude pin alone deciding.
extract_coords_from_url_lat_only(url) ==
    IF url.has3d
    THEN [found |-> TRUE, lat |-> url.lat3d, lon |-> url.lon4d]
    ELSE [found |-> FALSE, lat |-> 0, lon |-> 0]

\* extract_coords_from_url: (lat, lon) when both pins are found, else
\* (None, None).
extract_coords_from_url(url) ==
    IF url.has3d /\ url.has4d
    THEN [found |-> TRUE, lat |-> url.lat3d, lon |-> url.lon4d]
    ELSE [found |-> FALSE, lat |-> 0, lon |-> 0]

\* df.loc[valid_coords, 'geometry'] = Point(actual_lon, actual_lat)
UpdateGeometry(r) ==
    LET c == extract_coords_from_url(r.url)
    IN  IF c.found THEN [r EXCEPT !.geometry = Point(c.lon, c.lat)] ELSE r

\* As InBounds without the two tests on the longitude.
InBoundsLatitudeOnly(g) ==
    /\ g.lat >= LAT_MIN
    /\ g.lat <= LAT_MAX

\* The bounding box of the filter, on the geometry of the row.
InBounds(g) ==
    /\ g.lat >= LAT_MIN
    /\ g.lat <= LAT_MAX
    /\ g.lon >= LON_MIN
    /\ g.lon <= LON_MAX

BoundingFilter(rows) == SelectSeq(rows, LAMBDA r : InBounds(r.geometry))

\* The frame load_data hands to its deduplication.
LoadedBeforeDedup(rows) ==
    BoundingFilter([i \in 1..Len(rows) |-> UpdateGeometry(rows[i])])

load_data(file) ==
    IF ~file.exists THEN {<<>>}
    ELSE Deduplicate(LoadedBeforeDedup(file.rows))

(***************************************************************************)
(* Reference data and listings of the model                                *)
(***************************************************************************)
\* Two zones that overlap on 103.85..103.90 E, 1.30..1.36 N and whose southern
\* edges lie on one line.
ZoneX == Zone("X", 13000, 14750, 1037000, 1039000)
ZoneY == Zone("Y", 13000, 13600, 1038500, 1039500)

ZoneConfigs == {NoZones, ZoneRef(<<ZoneX>>), ZoneRef(<<ZoneX, ZoneY>>)}
PipeZoneConfigs == {NoZones, ZoneRef(<<ZoneX, ZoneY>>)}

\* The reference files preprocess_data is applied with in its own
\* specification, as pairs of the zone reference and the hawker file: each
\* zone reference with a hawker file in degrees that holds one point, and no
\* zone reference with a hawker file in EPSG:3414 that holds two points, one
\* 50 m north of the listing P1 and one 49 m east of the listing P3.
PreConfigs ==
    {<<z, HawkerRef(<<Point(1038000, 13503)>>)>> : z \in ZoneConfigs}
    \cup {<<NoZones,
            HawkerRefProjected(
                <<[x |-> ProjX(1038000), y |-> ProjY(13500) + 50],
                  [x |-> ProjX(1038700) + 49, y |-> ProjY(13500)]>>)>>}

\* The listings a scrape can return in the pipeline specification: duplicates
\* of a name with different and with equal review counts, a url with the
\* latitude pin alone, which lies north of the box, a nominal coordinate north
\* of the box whose url pin lies on the corner of the box, and a nominal
\* coordinate inside the box whose url pin lies east of it.
PipeListings ==
    { Listing("A", 40, 10, 13500, 1038000, NoPin),
      Listing("A", 40, 50, 13500, 1038000, NoPin),
      Listing("B", 40, 5, 13500, 1038000, NoPin),
      Listing("B", 40, 5, 13500, 1038000, Url(TRUE, 14900, FALSE, 0)),
      Listing("C", 40, 7, 14900, 1038000, Pin(14800, 1040500)),
      Listing("C", 40, 7, 13500, 1038000, Pin(13500, 1040600)) }

\* The listings preprocess_data is applied to in its own specification.
PreListings ==
    { Listing("P1", 40, 1, 13500, 1038000, NoPin),
      Listing("P2", 40, 1, 13510, 1038000, NoPin),
      Listing("P3", 40, 1, 13500, 1038700, NoPin),
      Listing("P4", 40, 1, 12995, 1038700, NoPin),
      Listing("P5", 40, 1, 12900, 1038000, NoPin),
      Listing("P6", 40, 1, 12700, 1038000, NoPin),
      Listing("P7", 40, 1, 14500, 1039005, NoPin),
      Listing("P8", 40, 1, 14500, 1039050, NoPin),
      Listing("P9", 40, 1, 14400, 1039050, NoPin),
      Listing("P10", 40, 1, 14720, 1038000, NoPin),
      Listing("P11", 40, 1, 14720, 1039005, NoPin),
      Listing("P12", 40, 1, 14700, 1038000, NoPin),
      Listing("P13", 40, 1, NaNCoord, 1038000, NoPin),
      Listing("Luss Restaurant & Bar", 40, 1, 14720, 1038000, NoPin) }

\* The listings of the specification of the script runs: two names, one of
\* them with a cuisine keyword, and a listing without a latitude.
RunListings ==
    { Listing("KFC", 40, 10, 13500, 1038000, NoPin),
      Listing("B", 46, 5, 13500, 1038000, NoPin),
      Listing("M", 43, 1, NaNCoord, 1038000, NoPin) }

\* The reference files of the specification of the script runs, as pairs of
\* the zone reference and the hawker file: no zone reference, no hawker file,
\* and a hawker file without a point.
RunConfigs ==
    { <<NoZones, HawkerRef(<<Point(1038000, 13503)>>)>>,
      <<ZoneRef(<<ZoneX>>), NoHawkerFile>>,
      <<ZoneRef(<<ZoneX>>), HawkerRef(<<>>)>> }

NoFile == [exists |-> FALSE, rows |-> <<>>]
File(rows) == [exists |-> TRUE, rows |-> rows]

NoModel == [exists |-> FALSE, model |-> NaN]

\* processed_seeds.json: missing, or the list of seed indices it holds.  With
\* the list goes, for the properties, which of its seeds had a scrape that
\* returned results when they were recorded.
NoLog == [exists |-> FALSE, indices |-> {}, with_results |-> {}]
Log(indices, with_results) ==
    [exists |-> TRUE, indices |-> indices, with_results |-> with_results]

\* The scraping loop of train.main: its position (idle, loop, save_raw,
\* save_log, after_loop, ended, crashed), the number of runs started, the
\* next seed of sample_seeds.iterrows(), and processed_indices.  For the
\* properties it also keeps the log as it was loaded at the start of the run,
\* the seeds handed to scrape_location in the run in the order of the calls,
\* the seeds whose call raised, and the recorded seeds whose call returned
\* results.
Loop(pc, runs, idx, processed, at_start, scraped, raised, with_results) ==
    [pc |-> pc, runs |-> runs, idx |-> idx, processed_indices |-> processed,
     loaded_indices |-> at_start, scraped |-> scraped, raised |-> raised,
     with_results |-> with_results]

\* No run of the scraping loop has started.
NoLoop == Loop("idle", 0, 0, {}, {}, <<>>, {}, {})

NoFold == [pc |-> "none"]
ModelFile(model) == [exists |-> TRUE, model |-> model]

\* The run of train.main or retrain.main under way: the script, its position
\* (idle, returned, failed, fitted, dataset_saved, done), the frame and the
\* model it holds in memory, what it was started with, and the two files as
\* they were when it started.
Run(script, out, empty, has_rating, prior_scored, prior_model) ==
    [script |-> script, pc |-> out.pc, gdf |-> out.gdf, model |-> out.model,
     empty |-> empty, has_rating |-> has_rating,
     prior_scored |-> prior_scored, prior_model |-> prior_model]

Idle ==
    Run("none", [pc |-> "idle", gdf |-> <<>>, model |-> NaN], FALSE, TRUE,
        NoFile, NoModel)


(***************************************************************************)
(* The pipeline: train.main, deduce_cuisine.main, load_data                *)
(***************************************************************************)
Init ==
    /\ all_restaurants = <<>>
    /\ planning_area_gdf \in PipeZoneConfigs
    /\ hawker_gdf = HawkerRef(<<Point(1038000, 13503)>>)
    /\ scored = NoFile
    /\ model_pkl = NoModel
    /\ run = Idle
    /\ loaded = <<>>
    /\ last_op = "init"
    /\ df = <<>>
    /\ gdf = <<>>
    /\ filtered_df = <<>>
    /\ raw_parquet = NoFile
    /\ processed_seeds_json = NoLog
    /\ loop = NoLoop
    /\ fold = NoFold

\* train.main, scraping loop: the results of a scrape are added to the list.
ScrapeLocation(l) ==
    /\ Len(all_restaurants) < MaxListings
    /\ all_restaurants' = Append(all_restaurants, l)
    /\ last_op' = "scrape"
    /\ UNCHANGED <<planning_area_gdf, scored, loaded, df, gdf,
                   hawker_gdf, model_pkl, run, filtered_df,
                   raw_parquet, processed_seeds_json, loop, fold>>

\* train.main after the loop, run to its end without an error: nothing is
\* written when the list is empty; otherwise the frame with the residuals is
\* written as the scored dataset and the fitted model as the model file.
TrainMain ==
    \E out \in {train_main(all_restaurants, hawker_gdf, planning_area_gdf, TRUE)} :
        /\ out.pc = "fitted"
        /\ scored' = File(out.gdf)
        /\ model_pkl' = ModelFile(out.model)
        /\ last_op' = "train"
        /\ UNCHANGED <<all_restaurants, planning_area_gdf, loaded, df, gdf,
                       hawker_gdf, run, filtered_df,
                       raw_parquet, processed_seeds_json, loop, fold>>

\* deduce_cuisine.main: reads the scored dataset, deduplicates it, sets the
\* category of every row from its name and writes the frame back over the
\* dataset.
DeduceCuisineMain ==
    /\ scored.exists
    /\ \E out \in Deduplicate(scored.rows) :
           scored' = File(WithDeducedCuisine(out))
    /\ last_op' = "deduce_cuisine"
    /\ UNCHANGED <<all_restaurants, planning_area_gdf, loaded, df, gdf,
                   hawker_gdf, model_pkl, run, filtered_df,
                   raw_parquet, processed_seeds_json, loop, fold>>

\* app/main.py load_data
LoadData ==
    /\ \E out \in load_data(scored) : loaded' = out
    /\ last_op' = "load_data"
    /\ UNCHANGED <<all_restaurants, planning_area_gdf, scored, df, gdf,
                   hawker_gdf, model_pkl, run, filtered_df,
                   raw_parquet, processed_seeds_json, loop, fold>>

Next ==
    \/ \E l \in PipeListings : ScrapeLocation(l)
    \/ TrainMain
    \/ DeduceCuisineMain
    \/ LoadData

Spec == Init /\ [][Next]_vars

(***************************************************************************)
(* preprocess_data on its own                                              *)
(***************************************************************************)
InitPre ==
    /\ all_restaurants = <<>>
    /\ \E c \in PreConfigs :
           planning_area_gdf = c[1] /\ hawker_gdf = c[2]
    /\ scored = NoFile
    /\ model_pkl = NoModel
    /\ run = Idle
    /\ loaded = <<>>
    /\ last_op = "init"
    /\ df = <<>>
    /\ gdf = <<>>
    /\ filtered_df = <<>>
    /\ raw_parquet = NoFile
    /\ processed_seeds_json = NoLog
    /\ loop = NoLoop
    /\ fold = NoFold

\* One more listing in the input frame, and preprocess_data applied to it:
\* it returns a frame or raises.
Preprocess(l) ==
    /\ Len(df) < MaxListings
    /\ df' = Append(df, l)
    /\ IF PreprocessRaises(df')
       THEN gdf' = <<>> /\ last_op' = "preprocess_raised"
       ELSE /\ gdf' = preprocess_data(df', hawker_gdf, planning_area_gdf)
            /\ last_op' = "preprocess"
    /\ UNCHANGED <<all_restaurants, planning_area_gdf, scored, loaded,
                   hawker_gdf, model_pkl, run, filtered_df,
                   raw_parquet, processed_seeds_json, loop, fold>>

NextPre == \E l \in PreListings : Preprocess(l)

SpecPre == InitPre /\ [][NextPre]_vars

(***************************************************************************)
(* The runs of the scripts, step by step: train.main, retrain.main,        *)
(* deduce_cuisine.main, classify_with_llm.main                             *)
(***************************************************************************)
InitRun ==
    /\ all_restaurants = <<>>
    /\ \E c \in RunConfigs :
           planning_area_gdf = c[1] /\ hawker_gdf = c[2]
    /\ scored = NoFile
    /\ model_pkl = NoModel
    /\ run = Idle
    /\ loaded = <<>>
    /\ last_op = "init"
    /\ df = <<>>
    /\ gdf = <<>>
    /\ filtered_df = <<>>
    /\ raw_parquet = NoFile
    /\ processed_seeds_json = NoLog
    /\ loop = NoLoop
    /\ fold = NoFold

\* No run of train.main or retrain.main is between its fit and its end.
Ended == run.pc \in {"idle", "returned", "failed", "done"}

\* A run of train.main collects the results of one more seed.
RunScrape(l) ==
    /\ Ended
    /\ Len(all_restaurants) < MaxRunListings
    /\ ScrapeLocation(l)

\* train.main from the end of the loop to the residuals (lines 124-198); the
\* frame of the collected listings has a rating column or not.
TrainFit(has_rating) ==
    /\ Ended
    /\ run' = Run("train",
                  train_main(all_restaurants, hawker_gdf, planning_area_gdf,
                             has_rating),
                  all_restaurants = <<>>, has_rating, scored, model_pkl)
    /\ last_op' = "train_fit"
    /\ UNCHANGED <<all_restaurants, planning_area_gdf, scored, loaded, df, gdf,
                   hawker_gdf, model_pkl, filtered_df,
                   raw_parquet, processed_seeds_json, loop, fold>>

\* retrain.main from its start to the residuals (lines 24-100).
RetrainFit ==
    /\ Ended
    /\ run' = Run("retrain", retrain_main(scored), FALSE, TRUE, scored, model_pkl)
    /\ last_op' = "retrain_fit"
    /\ UNCHANGED <<all_restaurants, planning_area_gdf, scored, loaded, df, gdf,
                   hawker_gdf, model_pkl, filtered_df,
                   raw_parquet, processed_seeds_json, loop, fold>>

\* gdf.to_parquet(output_path): train.py line 205, retrain.py line 104.
SaveDataset ==
    /\ run.pc = "fitted"
    /\ scored' = File(run.gdf)
    /\ run' = [run EXCEPT !.pc = "dataset_saved"]
    /\ last_op' = "save_dataset"
    /\ UNCHANGED <<all_restaurants, planning_area_gdf, loaded, df, gdf,
                   hawker_gdf, model_pkl, filtered_df,
                   raw_parquet, processed_seeds_json, loop, fold>>

\* joblib.dump(model, model_path): train.py line 210, retrain.py line 109.
SaveModel ==
    /\ run.pc = "dataset_saved"
    /\ model_pkl' = ModelFile(run.model)
    /\ run' = [run EXCEPT !.pc = "done"]
    /\ last_op' = "save_model"
    /\ UNCHANGED <<all_restaurants, planning_area_gdf, scored, loaded, df, gdf,
                   hawker_gdf, filtered_df,
                   raw_parquet, processed_seeds_json, loop, fold>>

\* The run is ended by an exception of the statement it is about to execute
\* (to_parquet or joblib.dump raising), or is killed.
RunFails ==
    /\ run.pc \in {"fitted", "dataset_saved"}
    /\ run' = [run EXCEPT !.pc = "failed"]
    /\ last_op' = "run_fails"
    /\ UNCHANGED <<all_restaurants, planning_area_gdf, scored, loaded, df, gdf,
                   hawker_gdf, model_pkl, filtered_df,
                   raw_parquet, processed_seeds_json, loop, fold>>

RunDeduceCuisine ==
    /\ Ended
    /\ DeduceCuisineMain

\* classify_with_llm.main with an API key: it returns when no row has the
\* category 'Other', and otherwise writes the frame with the classifications
\* back over the dataset.
ClassifyMain ==
    /\ Ended
    /\ scored.exists
    /\ IF OtherNames(scored.rows) = {}
       THEN UNCHANGED scored
       ELSE \E c \in Classifications(OtherNames(scored.rows)) :
                scored' = File(WithClassification(scored.rows, c))
    /\ last_op' = "classify"
    /\ UNCHANGED <<all_restaurants, planning_area_gdf, loaded, df, gdf,
                   hawker_gdf, model_pkl, run, filtered_df,
                   raw_parquet, processed_seeds_json, loop, fold>>

NextRun ==
    \/ \E l \in RunListings : RunScrape(l)
    \/ \E has_rating \in BOOLEAN : TrainFit(has_rating)
    \/ RetrainFit
    \/ SaveDataset
    \/ SaveModel
    \/ RunFails
    \/ RunDeduceCuisine
    \/ ClassifyMain

SpecRun == InitRun /\ [][NextRun]_vars

(***************************************************************************)
(* The front-end: marker tier, header colour and badge of a row            *)
(***************************************************************************)
\* As get_marker_color_rgb with the first test strict.
get_marker_color_rgb_strict(residual) ==
    IF residual > GEM_RESIDUAL THEN <<42, 157, 143, 200>>
    ELSE IF residual > FAIR_RESIDUAL THEN <<233, 196, 106, 200>>
    ELSE IF residual > OVERVALUED_RESIDUAL THEN <<244, 162, 97, 200>>
    ELSE <<231, 111, 81, 200>>

\* get_marker_color_rgb: [R, G, B, A]
get_marker_color_rgb(residual) ==
    IF residual >= GEM_RESIDUAL THEN <<42, 157, 143, 200>>
    ELSE IF residual > FAIR_RESIDUAL THEN <<233, 196, 106, 200>>
    ELSE IF residual > OVERVALUED_RESIDUAL THEN <<244, 162, 97, 200>>
    ELSE <<231, 111, 81, 200>>

get_header_color(residual) ==
    IF residual >= GEM_RESIDUAL THEN "#2a9d8f"
    ELSE IF residual > FAIR_RESIDUAL THEN "#e9c46a"
    ELSE IF residual > OVERVALUED_RESIDUAL THEN "#f4a261"
    ELSE "#e76f51"

\* f"{x:.2f}": x rounded to hundredths.  A value of the model that lies half
\* way between two hundredths stands for the floats next to it, which are
\* rounded either way.
Format2f(x) ==
    IF x % 10 < 5 THEN {x \div 10}
    ELSE IF x % 10 > 5 THEN {x \div 10 + 1}
    ELSE {x \div 10, x \div 10 + 1}

\* lambda x: f"Underrated +{x:.2f}" if x >= 0 else f"Overrated {x:.2f}", with
\* the formatted number as hundredths.
badge(x, hundredths) ==
    IF x >= FAIR_RESIDUAL THEN [label |-> "Underrated +", value |-> hundredths]
    ELSE [label |-> "Overrated ", value |-> hundredths]

\* The residuals of the rows shown: the three thresholds and the values
\* within ResidualSpan thousandths of each.
Residuals ==
    {t + d : t \in {OVERVALUED_RESIDUAL, FAIR_RESIDUAL, GEM_RESIDUAL},
             d \in (-ResidualSpan)..ResidualSpan}

InitTier ==
    /\ all_restaurants = <<>>
    /\ planning_area_gdf = NoZones
    /\ hawker_gdf = NoHawkerFile
    /\ scored = NoFile
    /\ model_pkl = NoModel
    /\ run = Idle
    /\ loaded = <<>>
    /\ last_op = "init"
    /\ df = <<>>
    /\ gdf = <<>>
    /\ filtered_df = <<>>
    /\ raw_parquet = NoFile
    /\ processed_seeds_json = NoLog
    /\ loop = NoLoop
    /\ fold = NoFold

\* One more row in the filtered frame, with the columns color, badge and
\* hcolor main computes for it (lines 402-424).
PrepareRow(residual) ==
    /\ Len(filtered_df) < MaxShown
    /\ \E hundredths \in Format2f(residual) :
           filtered_df' = Append(filtered_df,
               [residual |-> residual,
                color |-> get_marker_color_rgb(residual),
                badge |-> badge(residual, hundredths),
                hcolor |-> get_header_color(residual)])
    /\ last_op' = "prepare"
    /\ UNCHANGED <<all_restaurants, planning_area_gdf, scored, loaded, df, gdf,
                   hawker_gdf, model_pkl, run,
                   raw_parquet, processed_seeds_json, loop, fold>>

NextTier == \E residual \in Residuals : PrepareRow(residual)

SpecTier == InitTier /\ [][NextTier]_vars

(***************************************************************************)
(* The pipeline fitted on some rows and applied to another row, as          *)
(* cross_val_score does for each fold                                       *)
(***************************************************************************)
\* A row of a frame handed to the fit, reduced to its categorical columns
\* and its rating.
FoldRow(category, planning_area, rating) ==
    [review_count |-> 1, is_chain |-> FALSE, cluster_density |-> 0,
     category |-> category, category_encoded |-> category,
     planning_area |-> planning_area, rating |-> rating]

FoldRows ==
    {FoldRow(c, a, r) : c \in {"Cafe", "Korean"}, a \in {"X", "Y"},
                        r \in {40, 45}}

FoldFrames == UNION {[1..n -> FoldRows] : n \in 1..MaxFoldRows}

InitFold ==
    /\ all_restaurants = <<>>
    /\ planning_area_gdf = NoZones
    /\ hawker_gdf = NoHawkerFile
    /\ scored = NoFile
    /\ model_pkl = NoModel
    /\ run = Idle
    /\ loaded = <<>>
    /\ last_op = "init"
    /\ df = <<>>
    /\ gdf = <<>>
    /\ filtered_df = <<>>
    /\ raw_parquet = NoFile
    /\ processed_seeds_json = NoLog
    /\ loop = NoLoop
    /\ \E script \in {"train", "retrain"}, rows \in FoldFrames,
          row \in FoldRows :
           fold = [pc |-> "split", script |-> script, rows |-> rows,
                   row |-> row]

\* One fold of cross_val_score (train.py 178, retrain.py 67): the pipeline is
\* fitted on the rows of the training part and predicts a held-out row.
CrossValFold ==
    /\ fold.pc = "split"
    /\ \E model \in {Fit(fold.script, fold.rows)},
          x \in {FeaturesOf(fold.script, fold.row)} :
           fold' = [pc |-> "predicted", model |-> model, x |-> x,
                    predicted |-> PipelinePredict(model, x)]
    /\ last_op' = "cross_val"
    /\ UNCHANGED <<all_restaurants, planning_area_gdf, scored, loaded, df, gdf,
                   hawker_gdf, model_pkl, run, filtered_df,
                   raw_parquet, processed_seeds_json, loop>>

NextFold == CrossValFold

SpecFold == InitFold /\ [][NextFold]_vars

(***************************************************************************)
(* train.main, the scraping loop with its resume log and checkpoints       *)
(***************************************************************************)
\* sample_seeds: the seeds file has a RangeIndex, the labels 0..NumSeeds-1.
Seeds == 0..(NumSeeds - 1)

\* The seeds around which the map holds a restaurant: the last seed before
\* the first checkpoint and the first seed after it.
SeedsWithResults == {SAVE_EVERY - 1, SAVE_EVERY}

\* What scraper.scrape_location can do for a seed: return results, return an
\* empty list, or raise (browser.new_context and context.close are outside
\* its try block).
ScrapeOutcomes(i) ==
    IF i \in SeedsWithResults THEN {"results", "raises"} ELSE {"empty"}

\* The results of one scrape of a seed: one dict, which stands for the
\* restaurants around the seed.
Results(i) == <<[seed |-> i]>>

\* As already_processed with the log ignored.
already_processed_never(idx, processed_indices) == FALSE

\* if idx in processed_indices: continue
already_processed(idx, processed_indices) == idx \in processed_indices

\* As checkpoint_next with the log written before the raw results.
checkpoint_next_log_first(pc) ==
    CASE pc = "scraped"  -> "save_log"
      [] pc = "save_log" -> "save_raw"
      [] pc = "save_raw" -> "loop"

\* The order of the statements of a checkpoint (lines 116-120): the raw
\* results are written, then the log, then the loop goes on.
checkpoint_next(pc) ==
    CASE pc = "scraped"  -> "save_raw"
      [] pc = "save_raw" -> "save_log"
      [] pc = "save_log" -> "loop"

InitSeed ==
    /\ all_restaurants = <<>>
    /\ planning_area_gdf = NoZones
    /\ hawker_gdf = NoHawkerFile
    /\ scored = NoFile
    /\ model_pkl = NoModel
    /\ run = Idle
    /\ loaded = <<>>
    /\ last_op = "init"
    /\ df = <<>>
    /\ gdf = <<>>
    /\ filtered_df = <<>>
    /\ raw_parquet = NoFile
    /\ processed_seeds_json = NoLog
    /\ loop = NoLoop
    /\ fold = NoFold

\* The resume logic (lines 52-82): the raw results are read when the file
\* exists, and the log only then and when it exists too.  The files are
\* written whole, so that a file that exists can be read.
StartRun ==
    /\ loop.pc \in {"idle", "ended", "crashed"}
    /\ loop.runs < MaxRuns
    /\ all_restaurants' =
           IF raw_parquet.exists THEN raw_parquet.rows ELSE <<>>
    /\ \E log \in {IF raw_parquet.exists /\ processed_seeds_json.exists
                    THEN processed_seeds_json ELSE NoLog} :
           loop' = Loop("loop", loop.runs + 1, 0, log.indices, log.indices,
                        <<>>, {}, log.with_results)
    /\ last_op' = "start_run"
    /\ UNCHANGED <<planning_area_gdf, scored, loaded, df, gdf, hawker_gdf,
                   model_pkl, run, filtered_df, raw_parquet,
                   processed_seeds_json, fold>>

\* One iteration for a seed of the log: continue.
SkipSeed ==
    /\ loop.pc = "loop"
    /\ loop.idx < NumSeeds
    /\ already_processed(loop.idx, loop.processed_indices)
    /\ loop' = [loop EXCEPT !.idx = loop.idx + 1]
    /\ last_op' = "skip_seed"
    /\ UNCHANGED <<all_restaurants, planning_area_gdf, scored, loaded, df, gdf,
                   hawker_gdf, model_pkl, run, filtered_df, raw_parquet,
                   processed_seeds_json, fold>>

\* One iteration for another seed (lines 92-116): the seed is scraped, its
\* results are added to the list unless the call raised, the index is added
\* to processed_indices, and a checkpoint is due when the size of
\* processed_indices is a multiple of 50.
ScrapeSeed(outcome) ==
    /\ loop.pc = "loop"
    /\ loop.idx < NumSeeds
    /\ ~already_processed(loop.idx, loop.processed_indices)
    /\ outcome \in ScrapeOutcomes(loop.idx)
    /\ all_restaurants' =
           IF outcome = "results" THEN all_restaurants \o Results(loop.idx)
           ELSE all_restaurants
    /\ \E processed \in {loop.processed_indices \cup {loop.idx}} :
           loop' = Loop(IF Cardinality(processed) % SAVE_EVERY = 0
                        THEN checkpoint_next("scraped") ELSE "loop",
                        loop.runs, loop.idx + 1, processed,
                        loop.loaded_indices, Append(loop.scraped, loop.idx),
                        IF outcome = "raises"
                        THEN loop.raised \cup {loop.idx} ELSE loop.raised,
                        IF outcome = "results"
                        THEN loop.with_results \cup {loop.idx}
                        ELSE loop.with_results)
    /\ last_op' = "scrape_seed"
    /\ UNCHANGED <<planning_area_gdf, scored, loaded, df, gdf, hawker_gdf,
                   model_pkl, run, filtered_df, raw_parquet,
                   processed_seeds_json, fold>>

\* pd.DataFrame(all_restaurants).to_parquet(raw_output_path), line 118
SaveRaw ==
    /\ loop.pc = "save_raw"
    /\ raw_parquet' = File(all_restaurants)
    /\ loop' = [loop EXCEPT !.pc = checkpoint_next("save_raw")]
    /\ last_op' = "save_raw"
    /\ UNCHANGED <<all_restaurants, planning_area_gdf, scored, loaded, df, gdf,
                   hawker_gdf, model_pkl, run, filtered_df,
                   processed_seeds_json, fold>>

\* json.dump(list(processed_indices), f), lines 119-120
SaveLog ==
    /\ loop.pc = "save_log"
    /\ processed_seeds_json' = Log(loop.processed_indices, loop.with_results)
    /\ loop' = [loop EXCEPT !.pc = checkpoint_next("save_log")]
    /\ last_op' = "save_log"
    /\ UNCHANGED <<all_restaurants, planning_area_gdf, scored, loaded, df, gdf,
                   hawker_gdf, model_pkl, run, filtered_df, raw_parquet, fold>>

\* The end of the loop (lines 122-126): the scraper is closed, and main
\* returns when the list is empty.
EndLoop ==
    /\ loop.pc = "loop"
    /\ loop.idx = NumSeeds
    /\ loop' = [loop EXCEPT !.pc = IF all_restaurants = <<>> THEN "ended"
                                   ELSE "after_loop"]
    /\ last_op' = "end_loop"
    /\ UNCHANGED <<all_restaurants, planning_area_gdf, scored, loaded, df, gdf,
                   hawker_gdf, model_pkl, run, filtered_df, raw_parquet,
                   processed_seeds_json, fold>>

\* df.to_parquet(raw_output_path), line 130; the log is not written here.
SaveFinalRaw ==
    /\ loop.pc = "after_loop"
    /\ raw_parquet' = File(all_restaurants)
    /\ loop' = [loop EXCEPT !.pc = "ended"]
    /\ last_op' = "save_final_raw"
    /\ UNCHANGED <<all_restaurants, planning_area_gdf, scored, loaded, df, gdf,
                   hawker_gdf, model_pkl, run, filtered_df,
                   processed_seeds_json, fold>>

\* The process is interrupted or killed between two statements; what it held
\* in memory is gone with it.
Crash ==
    /\ loop.pc \in {"loop", "save_raw", "save_log", "after_loop"}
    /\ loop' = [loop EXCEPT !.pc = "crashed"]
    /\ last_op' = "crash"
    /\ UNCHANGED <<all_restaurants, planning_area_gdf, scored, loaded, df, gdf,
                   hawker_gdf, model_pkl, run, filtered_df, raw_parquet,
                   processed_seeds_json, fold>>

NextSeed ==
    \/ StartRun
    \/ SkipSeed
    \/ \E outcome \in {"results", "empty", "raises"} : ScrapeSeed(outcome)
    \/ SaveRaw
    \/ SaveLog
    \/ EndLoop
    \/ SaveFinalRaw
    \/ Crash

SpecSeed == InitSeed /\ [][NextSeed]_vars

(***************************************************************************)
(* Helpers of the properties                                               *)
(***************************************************************************)
Rows(frame) == {frame[i] : i \in 1..Len(frame)}

Names(frame) == {frame[i].name : i \in 1..Len(frame)}

RowsNamed(frame, n) == {i \in 1..Len(frame) : frame[i].name = n}

MaxReviewCount(frame, n) ==
    CHOOSE c \in {frame[i].review_count : i \in RowsNamed(frame, n)} :
        \A i \in RowsNamed(frame, n) : frame[i].review_count <= c

\* out holds, for every name of in, exactly one row, with the greatest
\* review_count of the rows of in with that name.
OnePerNameWithMax(in, out) ==
    \A n \in Names(in) :
        /\ Cardinality(RowsNamed(out, n)) = 1
        /\ \A i \in RowsNamed(out, n) :
               out[i].review_count = MaxReviewCount(in, n)

\* The coordinate of listing i of an input frame of preprocess_data.
InputPoint(frame, i) == Point(frame[i].longitude, frame[i].latitude)

\* The rows of an output frame of preprocess_data that stem from input row i.
RowsOf(frame, i) == {k \in 1..Len(frame) : frame[k].idx = i}

ZoneNames(ref) == {ref.zones[j].name : j \in 1..Len(ref.zones)}

Containing(g, ref) == {j \in 1..Len(ref.zones) : Within(g, ref.zones[j])}

\* The geometry a row has after load_data has read its url.
PinnedGeometry(s) ==
    IF s.url.has3d /\ s.url.has4d THEN Point(s.url.lon4d, s.url.lat3d)
    ELSE s.geometry

\* The first row of the name n in frame among those with the greatest
\* review_count of that name.
FirstMaxIndex(frame, n) ==
    CHOOSE i \in RowsNamed(frame, n) :
        /\ frame[i].review_count = MaxReviewCount(frame, n)
        /\ \A j \in RowsNamed(frame, n) :
               j < i => frame[j].review_count < MaxReviewCount(frame, n)

\* The three listings of the first scenario, in any order: A, A, B with
\* review_count 10, 50, 5 at one point.
ScenarioOne(frame) ==
    /\ Len(frame) = 3
    /\ {<<frame[i].name, frame[i].review_count>> : i \in 1..3} =
           {<<"A", 10>>, <<"A", 50>>, <<"B", 5>>}
    /\ \A i \in 1..3 : InputPoint(frame, i) = InputPoint(frame, 1)

\* The last operation was a step of the run recorded in run.
LastStepOfRun ==
    last_op \in {"train_fit", "retrain_fit", "save_dataset", "save_model",
                 "run_fails"}

\* The tier a marker colour stands for, and the header colour of that tier.
TierOfMarker(color) ==
    CASE color = <<42, 157, 143, 200>> -> "Gem"
      [] color = <<233, 196, 106, 200>> -> "Fair value, above expectation"
      [] color = <<244, 162, 97, 200>> -> "Fair value, below expectation"
      [] color = <<231, 111, 81, 200>> -> "Overvalued"

HeaderOfTier(tier) ==
    CASE tier = "Gem" -> "#2a9d8f"
      [] tier = "Fair value, above expectation" -> "#e9c46a"
      [] tier = "Fair value, below expectation" -> "#f4a261"
      [] tier = "Overvalued" -> "#e76f51"

\* The cuisine column among the features of one row of X.
CuisineFeature(x) ==
    IF "category_encoded" \in DOMAIN x THEN x.category_encoded ELSE x.category

\* The categories of a frame that are among its TOP_CATEGORIES most frequent.
MostFrequent(rows) ==
    LET cats == {rows[i].category : i \in 1..Len(rows)}
        count(c) == Cardinality({i \in 1..Len(rows) : rows[i].category = c})
    IN  {c \in cats :
            Cardinality({d \in cats : count(d) > count(c)}) < TOP_CATEGORIES}

\* The distance from a point in degrees to the nearest point of the hawker
\* file, in metres.
NearestHawker(g, hawker) ==
    LET p == [x |-> ProjX(g.lon), y |-> ProjY(g.lat)]
        q(j) == IF hawker.crs = "EPSG:3414" THEN hawker.points[j]
                ELSE [x |-> ProjX(hawker.points[j].lon),
                      y |-> ProjY(hawker.points[j].lat)]
        ds == {DistanceXY(p, q(j)) : j \in 1..Len(hawker.points)}
    IN  CHOOSE d \in ds : \A e \in ds : d <= e

\* The number of results of seed i in a list of results.
ResultsOfSeed(results, i) ==
    Cardinality({k \in 1..Len(results) : results[k].seed = i})

\* The run of the scraping loop recorded in loop is under way or has ended.
InRun == loop.pc \in {"loop", "save_raw", "save_log", "after_loop", "ended"}

\* The zones of the reference at the least distance from g, when that distance
\* is at most m metres.
NearestWithin(g, ref, m) ==
    {j \in 1..Len(ref.zones) :
        /\ ZoneDistSq(g, ref.zones[j], m) <= m * m
        /\ \A k \in 1..Len(ref.zones) :
               ZoneDistSq(g, ref.zones[j], m) <= ZoneDistSq(g, ref.zones[k], m)}

(***************************************************************************)
(* Claims                                                                  *)
(***************************************************************************)

\* C1: the deduplication of load_data and of deduce_cuisine.main outputs, for
\* every name among the rows it receives, exactly one row with that name, and
\* that row carries the greatest review_count of the rows sharing the name.
C1_DedupKeepsMaxPerName ==
    [][ /\ (last_op' = "load_data" /\ scored.exists) =>
               OnePerNameWithMax(LoadedBeforeDedup(scored.rows), loaded')
        /\ (last_op' = "deduce_cuisine") =>
               OnePerNameWithMax(scored.rows, scored'.rows) ]_vars

\* C1 witness: load_data has run on a dataset in which two in-bounds rows share
\* a name with different review counts, and returned one row of that name.
C1_Witness ==
    /\ last_op = "load_data"
    /\ \E i, j \in 1..Len(scored.rows) :
          /\ scored.rows[i].name = scored.rows[j].name
          /\ scored.rows[i].review_count < scored.rows[j].review_count
          /\ InBounds(UpdateGeometry(scored.rows[i]).geometry)
          /\ InBounds(UpdateGeometry(scored.rows[j]).geometry)
          /\ Cardinality(RowsNamed(loaded, scored.rows[i].name)) = 1

\* C2: the scored dataset written by train.main holds no two rows with the
\* same name.
C2_ScoredOneRowPerName ==
    last_op = "train" =>
        \A i, j \in 1..Len(scored.rows) :
            scored.rows[i].name = scored.rows[j].name => i = j

\* C3: every row load_data returns has its coordinate inside the bounding box,
\* bounds included, on both axes.
C3_LoadedInBounds ==
    \A r \in Rows(loaded) :
        /\ 11500 <= r.geometry.lat /\ r.geometry.lat <= 14800
        /\ 1036000 <= r.geometry.lon /\ r.geometry.lon <= 1040500

\* C3 witness: load_data has run on a dataset with a row whose coordinate is
\* outside the box on the longitude axis alone, and returned other rows, one of
\* them with its url pin on the corner of the box.
C3_Witness ==
    /\ last_op = "load_data"
    /\ \E r \in Rows(scored.rows) :
          /\ UpdateGeometry(r).geometry.lon > LON_MAX
          /\ UpdateGeometry(r).geometry.lat <= LAT_MAX
    /\ \E r \in Rows(loaded) :
          r.geometry.lat = LAT_MAX /\ r.geometry.lon = LON_MAX

\* C4: no listing whose coordinate is outside the bounding box takes part in
\* the zone resolution, the density computation or the fit of train.main: the
\* rows train.main has resolved and written are all inside the box.
C4_NoOutOfBoundsInScoring ==
    last_op = "train" =>
        \A r \in Rows(scored.rows) :
            /\ 11500 <= r.geometry.lat /\ r.geometry.lat <= 14800
            /\ 1036000 <= r.geometry.lon /\ r.geometry.lon <= 1040500

\* C5: after preprocess_data planning_area is never null: it is a zone name or
\* 'Outside Singapore' with a zone reference, and 'Unknown' without one.
C5_PlanningAreaNonNull ==
    \A r \in Rows(gdf) :
        /\ r.planning_area # NaN
        /\ planning_area_gdf.given =>
               r.planning_area \in ZoneNames(planning_area_gdf) \cup {"Outside Singapore"}
        /\ ~planning_area_gdf.given => r.planning_area = "Unknown"

\* C5 witness: preprocess_data has resolved, with a zone reference, a point at
\* or below 1.44 that lies in no zone and is more than 2000 m from every zone.
C5_Witness ==
    /\ last_op = "preprocess"
    /\ planning_area_gdf.given
    /\ \E r \in Rows(gdf) :
          /\ r.latitude <= BORDER_LAT
          /\ Containing(r.geometry, planning_area_gdf) = {}
          /\ NearestWithin(r.geometry, planning_area_gdf, 2000) = {}
          /\ r.planning_area = "Outside Singapore"

\* C6: zone resolution yields exactly one output row per input restaurant.
C6_OneRowPerRestaurant ==
    /\ Len(gdf) = Len(df)
    /\ \A i \in 1..Len(df) : Cardinality(RowsOf(gdf, i)) = 1

\* C7: with a zone reference, a row whose latitude is above 1.47 has
\* planning_area 'Outside Singapore'; a row with latitude at most 1.47 that
\* lies within a zone keeps the name of a zone it lies within.
C7_HardCutoff ==
    planning_area_gdf.given =>
        \A r \in Rows(gdf) :
            /\ r.latitude > 14700 => r.planning_area = "Outside Singapore"
            /\ (r.latitude <= 14700 /\ Containing(r.geometry, planning_area_gdf) # {}) =>
                   \E j \in Containing(r.geometry, planning_area_gdf) :
                       r.planning_area = planning_area_gdf.zones[j].name

\* C7 witness: the frame holds a row above 1.47 that lies within a zone, and a
\* row at exactly 1.47 within a zone that kept its zone.
C7_Witness ==
    /\ planning_area_gdf.given
    /\ \E r \in Rows(gdf) :
          /\ r.latitude > 14700
          /\ Containing(r.geometry, planning_area_gdf) # {}
          /\ r.planning_area = "Outside Singapore"
    /\ \E r \in Rows(gdf) :
          /\ r.latitude = 14700
          /\ r.planning_area = "X"

\* C8: a row that lies within no zone receives the nearest zone only if that
\* zone is within 100 m when its latitude is above 1.44, within 2000 m when it
\* is at most 1.44; in every other case it is labeled 'Outside Singapore'.
C8_FallbackThresholds ==
    planning_area_gdf.given =>
        \A r \in Rows(gdf) :
            Containing(r.geometry, planning_area_gdf) = {} =>
                LET m == IF r.latitude > 14400 THEN 100 ELSE 2000
                    near == NearestWithin(r.geometry, planning_area_gdf, m)
                IN  /\ r.planning_area # "Outside Singapore" =>
                           \E j \in near :
                               r.planning_area = planning_area_gdf.zones[j].name
                    /\ (near # {} /\ r.latitude <= 14700) =>
                           r.planning_area # "Outside Singapore"

\* C8 witness: an unresolved row above 1.44 whose nearest zone is more than
\* 100 m and at most 2000 m away is labeled 'Outside Singapore', while a row at
\* 1.44 at the same distance received the zone.
C8_Witness ==
    /\ planning_area_gdf.given
    /\ \E r \in Rows(gdf) :
          /\ r.latitude > 14400
          /\ r.latitude <= 14700
          /\ Containing(r.geometry, planning_area_gdf) = {}
          /\ NearestWithin(r.geometry, planning_area_gdf, 100) = {}
          /\ NearestWithin(r.geometry, planning_area_gdf, 2000) # {}
          /\ r.planning_area = "Outside Singapore"
    /\ \E r \in Rows(gdf) :
          /\ r.latitude = 14400
          /\ Containing(r.geometry, planning_area_gdf) = {}
          /\ NearestWithin(r.geometry, planning_area_gdf, 100) = {}
          /\ r.planning_area = "X"

\* C9: cluster_density of a row is the number of other rows of the input whose
\* projected coordinate is within 200 m of it, and is never negative.
C9_ClusterDensityCountsOthers ==
    \A r \in Rows(gdf) :
        /\ r.cluster_density =
               Cardinality({j \in 1..Len(df) :
                   /\ j # r.idx
                   /\ WithinRadius(InputPoint(df, j), InputPoint(df, r.idx), 200)})
        /\ r.cluster_density >= 0

\* C9 witness: two rows of the input at one point, each counting the other.
C9_Witness ==
    /\ last_op = "preprocess"
    /\ \E i, j \in 1..Len(df) :
          /\ i # j
          /\ InputPoint(df, i) = InputPoint(df, j)
          /\ \A k \in RowsOf(gdf, i) : gdf[k].cluster_density >= 1

\* C10: adding one restaurant to the input raises by exactly 1 the
\* cluster_density of every existing restaurant strictly within 200 m of it and
\* leaves that of every existing restaurant farther than 200 m unchanged.
C10_DensityMonotone ==
    [][ (Len(df') = Len(df) + 1) =>
          \A i \in 1..Len(df) :
            \A k \in RowsOf(gdf, i) : \A k2 \in RowsOf(gdf', i) :
              /\ StrictlyWithinRadius(InputPoint(df', i),
                                      InputPoint(df', Len(df')), 200) =>
                     gdf'[k2].cluster_density = gdf[k].cluster_density + 1
              /\ ~WithinRadius(InputPoint(df', i),
                               InputPoint(df', Len(df')), 200) =>
                     gdf'[k2].cluster_density = gdf[k].cluster_density ]_vars

\* C10 witness: the restaurant added last is strictly within 200 m of the
\* first one, at another point, and a third one is farther than 200 m.
C10_Witness ==
    /\ Len(df) = 3
    /\ InputPoint(df, 1) # InputPoint(df, 3)
    /\ StrictlyWithinRadius(InputPoint(df, 1), InputPoint(df, 3), 200)
    /\ ~WithinRadius(InputPoint(df, 2), InputPoint(df, 3), 200)
    /\ \A k \in RowsOf(gdf, 1) : gdf[k].cluster_density >= 1

\* C11: for the three listings A, A, B with review_count 10, 50, 5 at one
\* point inside zone X, what load_data returns from the dataset train.main
\* wrote holds exactly two restaurants, A with review_count 50 and B with
\* review_count 5, both with planning_area X and cluster_density 1.
C11_ScenarioOne ==
    ( /\ last_op = "load_data"
      /\ planning_area_gdf.given
      /\ ScenarioOne(all_restaurants)
      /\ scored = File(train_main(all_restaurants, hawker_gdf,
                                  planning_area_gdf, TRUE).gdf) ) =>
        /\ Len(loaded) = 2
        /\ \E i, j \in 1..Len(loaded) :
              /\ loaded[i].name = "A" /\ loaded[i].review_count = 50
              /\ loaded[j].name = "B" /\ loaded[j].review_count = 5
        /\ \A r \in Rows(loaded) :
              r.planning_area = "X" /\ r.cluster_density = 1

\* C12: get_marker_color_rgb and get_header_color put a residual in the Gem
\* tier exactly when it is at least 0.5, in the fair-above tier exactly when it
\* is between 0 and 0.5 exclusive, in the fair-below tier exactly when it is
\* above -0.5 and at most 0, in the Overvalued tier exactly when it is at most
\* -0.5; the header colour is that of the marker's tier, and two rows with the
\* same residual have the same tier.
C12_FourTiers ==
    \A i \in 1..Len(filtered_df) :
        LET r == filtered_df[i].residual
            tier == TierOfMarker(filtered_df[i].color)
        IN  /\ tier = "Gem" <=> r >= 500
            /\ tier = "Fair value, above expectation" <=> (0 < r /\ r < 500)
            /\ tier = "Fair value, below expectation" <=> (-500 < r /\ r <= 0)
            /\ tier = "Overvalued" <=> r <= -500
            /\ filtered_df[i].hcolor = HeaderOfTier(tier)
            /\ \A j \in 1..Len(filtered_df) :
                   filtered_df[j].residual = r =>
                       /\ filtered_df[j].color = filtered_df[i].color
                       /\ filtered_df[j].hcolor = filtered_df[i].hcolor

\* C12 witness: the frame holds a row with residual exactly 0.5 shown as a Gem
\* and a row with residual exactly 0.0 shown as fair value below expectation.
C12_Witness ==
    /\ \E i \in 1..Len(filtered_df) :
          /\ filtered_df[i].residual = 500
          /\ filtered_df[i].color = <<42, 157, 143, 200>>
          /\ filtered_df[i].hcolor = "#2a9d8f"
    /\ \E i \in 1..Len(filtered_df) :
          /\ filtered_df[i].residual = 0
          /\ filtered_df[i].color = <<244, 162, 97, 200>>

\* C13: the badge follows the four tiers: two rows in different tiers never
\* carry the same badge label, and a row in the fair-below tier, residual 0.0
\* included, is not badged as underrated.
C13_BadgeFollowsTiers ==
    \A i \in 1..Len(filtered_df) :
        /\ \A j \in 1..Len(filtered_df) :
               TierOfMarker(filtered_df[i].color) # TierOfMarker(filtered_df[j].color)
                   => filtered_df[i].badge.label # filtered_df[j].badge.label
        /\ TierOfMarker(filtered_df[i].color) = "Fair value, below expectation"
               => filtered_df[i].badge.label # "Underrated +"

\* C14: when a run of train.main or retrain.main has failed, at whatever
\* step, the scored dataset is the one that was persisted when the run
\* started.
C14_FailedRunLeavesDataset ==
    (LastStepOfRun /\ run.pc = "failed") => scored = run.prior_scored

\* C15: between the runs of the scripts, the persisted dataset and the
\* persisted model belong to one fit: a dataset comes with a model, every row's
\* predicted_rating and residual are what that model gives for the row's
\* features, and the model was fitted on the rows the dataset holds.
C15_DatasetAndModelOfOneFit ==
    (Ended /\ scored.exists) =>
        /\ model_pkl.exists
        /\ \A r \in Rows(scored.rows) :
              /\ r.predicted_rating =
                     Predict(model_pkl.model, FeaturesOf(model_pkl.model.script, r))
              /\ r.residual = r.rating * 100 - r.predicted_rating
        /\ model_pkl.model = Fit(model_pkl.model.script, scored.rows)

\* C16: a run of train.main that found no restaurants, or whose frame has no
\* rating column, ends without having written the dataset or the model: both
\* files are as they were when it started.
C16_NoWriteWithoutTrainingData ==
    (LastStepOfRun /\ run.script = "train" /\ (run.empty \/ ~run.has_rating)) =>
        /\ run.pc \in {"returned", "failed"}
        /\ scored = run.prior_scored
        /\ model_pkl = run.prior_model

\* C16 witness: a dataset and a model exist, and a run of train.main on a
\* frame without a rating column has ended.
C16_Witness ==
    /\ LastStepOfRun
    /\ run.script = "train"
    /\ ~run.has_rating
    /\ all_restaurants # <<>>
    /\ run.pc = "failed"
    /\ scored.exists
    /\ model_pkl.exists

\* C17: a run of train.main with listings, a rating column and coordinates,
\* but without the zone reference or without the hawker file, comes to its end
\* with a written dataset, in which planning_area is 'Unknown' for every row
\* when the zone reference is absent, and is_hawker is False and
\* dist_to_hawker 9999.0 for every row when the hawker file is absent.
C17_MissingReferenceDegrades ==
    ( /\ LastStepOfRun
      /\ run.script = "train"
      /\ run.pc \in {"returned", "done"}
      /\ ~run.empty
      /\ run.has_rating
      /\ ~PreprocessRaises(all_restaurants)
      /\ (~planning_area_gdf.given \/ ~hawker_gdf.exists) ) =>
        /\ run.pc = "done"
        /\ scored.exists
        /\ ~planning_area_gdf.given =>
               \A r \in Rows(scored.rows) : r.planning_area = "Unknown"
        /\ ~hawker_gdf.exists =>
               \A r \in Rows(scored.rows) :
                   r.is_hawker = FALSE /\ r.dist_to_hawker = 9999

\* C18: preprocess_data does not raise on a frame that holds a listing without
\* latitude or longitude; the frame it returns holds the rows of every other
\* listing and no row of that listing.
C18_MissingCoordinateDropped ==
    last_op \in {"preprocess", "preprocess_raised"} =>
        /\ last_op = "preprocess"
        /\ \A i \in 1..Len(df) :
               (df[i].latitude # -999999 /\ df[i].longitude # -999999)
                   <=> RowsOf(gdf, i) # {}

\* C19: every row load_data returns is a row of the dataset with its geometry
\* set to the point (lon, lat) of the url when the url holds both pins, and
\* with its geometry unchanged when a pin is missing; the rows returned are
\* inside the bounding box on that geometry, and every name with a row whose
\* resulting geometry is inside the box is returned.
C19_UrlPinGeometry ==
    (last_op = "load_data" /\ scored.exists) =>
        /\ \A r \in Rows(loaded) :
              /\ \E s \in Rows(scored.rows) :
                    r = [s EXCEPT !.geometry = PinnedGeometry(s)]
              /\ 11500 <= r.geometry.lat /\ r.geometry.lat <= 14800
              /\ 1036000 <= r.geometry.lon /\ r.geometry.lon <= 1040500
        /\ \A s \in Rows(scored.rows) :
              ( /\ 11500 <= PinnedGeometry(s).lat /\ PinnedGeometry(s).lat <= 14800
                /\ 1036000 <= PinnedGeometry(s).lon
                /\ PinnedGeometry(s).lon <= 1040500 ) =>
                  s.name \in Names(loaded)

\* C19 witness: load_data has returned a row whose url holds both pins, with
\* the pinned point in place of its nominal coordinate, and a row whose url
\* holds the latitude pin alone, at its nominal coordinate.
C19_Witness ==
    /\ last_op = "load_data"
    /\ \E r \in Rows(loaded) :
          /\ r.url.has3d /\ r.url.has4d
          /\ r.geometry = Point(r.url.lon4d, r.url.lat3d)
          /\ r.geometry # Point(r.longitude, r.latitude)
    /\ \E r \in Rows(loaded) :
          /\ r.url.has3d /\ ~r.url.has4d
          /\ r.geometry = Point(r.longitude, r.latitude)

\* C20: when several rows of one name share the greatest review_count,
\* load_data returns for that name the first of them in the order of the frame
\* it deduplicates.
C20_TieKeepsFirst ==
    (last_op = "load_data" /\ scored.exists) =>
        \A r \in Rows(loaded) :
            r = LoadedBeforeDedup(scored.rows)[
                    FirstMaxIndex(LoadedBeforeDedup(scored.rows), r.name)]

\* C21: the cuisine feature a model is fitted on is the column
\* category_encoded of the frame, which is the category of the row when that
\* category is among the 20 most frequent of the frame and 'Other' otherwise;
\* the feature takes at most 21 distinct values in a fitted model.
C21_CuisineFeatureIsCategoryEncoded ==
    run.pc \in {"fitted", "dataset_saved", "done"} =>
        /\ \A i \in 1..Len(run.gdf) :
              /\ CuisineFeature(run.model.X[i]) = run.gdf[i].category_encoded
              /\ run.gdf[i].category_encoded =
                     IF run.gdf[i].category \in MostFrequent(run.gdf)
                     THEN run.gdf[i].category ELSE "Other"
        /\ Cardinality({CuisineFeature(run.model.X[i]) :
                            i \in 1..Len(run.gdf)}) <= TOP_CATEGORIES + 1

\* C22: the encoder of a fitted pipeline gives the code -1 to a value of a
\* categorical column that no row of the fit had, a code that no value seen
\* during the fit has, and the prediction for such a row is a rating, which
\* lies between the least and the greatest rating of the fit.
C22_UnseenValueEncodedAsUnknown ==
    fold.pc = "predicted" =>
        /\ \A column \in DOMAIN fold.predicted.codes :
              LET seen == {fold.model.X[i][column] : i \in 1..Len(fold.model.X)}
                  code == fold.predicted.codes[column]
              IN  /\ fold.x[column] \notin seen =>
                         /\ code = -1
                         /\ \A v \in seen :
                                OrdinalEncode(fold.model, column, v) # code
                  /\ fold.x[column] \in seen => code >= 0
                  /\ \A v, w \in seen :
                         v # w => OrdinalEncode(fold.model, column, v) #
                                      OrdinalEncode(fold.model, column, w)
        /\ \E i \in 1..Len(fold.model.y) :
               fold.model.y[i] * 100 <= fold.predicted.rating
        /\ \E i \in 1..Len(fold.model.y) :
               fold.predicted.rating <= fold.model.y[i] * 100

\* C22 witness: a pipeline fitted on rows of two cuisines in one zone has
\* predicted a row of the other zone, and one fitted on rows of one cuisine
\* could predict a row of another cuisine.
C22_Witness ==
    /\ fold.pc = "predicted"
    /\ Cardinality({fold.model.X[i].planning_area :
                        i \in 1..Len(fold.model.X)}) = 1
    /\ Cardinality({CuisineFeature(fold.model.X[i]) :
                        i \in 1..Len(fold.model.X)}) = 2
    /\ \A i \in 1..Len(fold.model.X) :
           fold.model.X[i].planning_area # fold.x.planning_area
    /\ fold.predicted.codes["planning_area"] = -1

\* C23: with a hawker file that holds a point, dist_to_hawker of a row is the
\* distance in metres from the coordinate of its listing to the nearest point
\* of the file and is not negative, and is_hawker is True exactly when that
\* distance is less than 50.
C23_HawkerAdjacency ==
    (last_op = "preprocess" /\ Len(hawker_gdf.points) > 0) =>
        \A r \in Rows(gdf) :
            LET d == NearestHawker(InputPoint(df, r.idx), hawker_gdf)
            IN  /\ r.dist_to_hawker = d
                /\ r.dist_to_hawker >= 0
                /\ r.is_hawker = (d < 50)

\* C23 witness: a row exactly 50 m from the nearest point of the hawker file,
\* which is not adjacent, and a row 49 m from it, which is.
C23_Witness ==
    /\ last_op = "preprocess"
    /\ \E r \in Rows(gdf) : r.dist_to_hawker = 50 /\ r.is_hawker = FALSE
    /\ \E r \in Rows(gdf) : r.dist_to_hawker = 49 /\ r.is_hawker = TRUE

C25_SeedResultsAddedOnce ==
    \A i \in Seeds : ResultsOfSeed(all_restaurants, i) <= 1

\* C26: in a run of the scraping loop no seed of the log loaded at the start
\* is handed to scrape_location, no seed is handed to it twice, and when the
\* loop has ended every seed outside that log was handed to it and
\* processed_indices holds every seed.
C26_EachSeedScrapedOnce ==
    InRun =>
        /\ \A k \in 1..Len(loop.scraped) :
              /\ loop.scraped[k] \notin loop.loaded_indices
              /\ \A m \in 1..Len(loop.scraped) :
                     loop.scraped[m] = loop.scraped[k] => m = k
        /\ loop.pc \in {"after_loop", "ended"} =>
              /\ \A i \in Seeds \ loop.loaded_indices :
                     \E k \in 1..Len(loop.scraped) : loop.scraped[k] = i
              /\ Seeds \subseteq loop.processed_indices

\* C26 witness: a resumed run has ended that skipped the seeds of a log and
\* scraped another seed.
C26_Witness ==
    /\ loop.pc = "ended"
    /\ loop.loaded_indices # {}
    /\ loop.scraped # <<>>

\* C27: every seed of the persisted log whose scrape returned results has
\* those results in the persisted raw file.
C27_LogNeverAheadOfData ==
    \A i \in processed_seeds_json.with_results :
        /\ raw_parquet.exists
        /\ ResultsOfSeed(raw_parquet.rows, i) >= 1

\* C27 witness: a run was interrupted between the two writes of a checkpoint,
\* which left the raw file with the results of a seed and no log; the next
\* run scraped that seed again and completed the checkpoint.
C27_Witness ==
    /\ loop.runs = 2
    /\ processed_seeds_json.exists
    /\ (SAVE_EVERY - 1) \in processed_seeds_json.with_results
    /\ raw_parquet.exists
    /\ ResultsOfSeed(raw_parquet.rows, SAVE_EVERY - 1) = 2

\* C28: a seed whose scrape raised in the run is not in processed_indices nor
\* in the persisted log.
C28_RaisedSeedNotRecorded ==
    InRun =>
        \A i \in loop.raised :
            /\ i \notin loop.processed_indices
            /\ i \notin processed_seeds_json.indices

\* C29: with a zone reference, the output rows of a restaurant whose point
\* lies within a zone are, when its latitude is at most 1.47, one row for each
\* zone it lies within, labeled with that zone, and, when its latitude is
\* above 1.47, labeled 'Outside Singapore'.
C29_ContainedRowsKeepTheirZone ==
    (last_op = "preprocess" /\ planning_area_gdf.given) =>
        \A r \in Rows(gdf) :
            LET within == Containing(r.geometry, planning_area_gdf)
                rows == RowsOf(gdf, r.idx)
            IN  within # {} =>
                    IF r.latitude > 14700
                    THEN r.planning_area = "Outside Singapore"
                    ELSE /\ Cardinality(rows) = Cardinality(within)
                         /\ {gdf[k].planning_area : k \in rows} =
                                {planning_area_gdf.zones[j].name : j \in within}

\* C29 witness: a restaurant within two zones kept both, the second of the
\* reference included, and a restaurant within a zone above 1.47 lost it.
C29_Witness ==
    /\ last_op = "preprocess"
    /\ planning_area_gdf.given
    /\ \E r \in Rows(gdf) :
          /\ Cardinality(Containing(r.geometry, planning_area_gdf)) = 2
          /\ r.planning_area = "Y"
    /\ \E r \in Rows(gdf) :
          /\ Containing(r.geometry, planning_area_gdf) # {}
          /\ r.latitude > 14700
          /\ r.planning_area = "Outside Singapore"

\* C30: every row preprocess_data returns carries the point of its latitude
\* and longitude, and its dist_to_hawker, its cluster_density and its
\* planning_area are those of that point.
C30_FeaturesOfOneCoordinate ==
    last_op = "preprocess" =>
        \A r \in Rows(gdf) :
            /\ r.geometry = Point(r.longitude, r.latitude)
            /\ Len(hawker_gdf.points) > 0 =>
                   r.dist_to_hawker = NearestHawker(r.geometry, hawker_gdf)
            /\ r.cluster_density =
                   Cardinality({t.idx : t \in {u \in Rows(gdf) :
                       /\ u.idx # r.idx
                       /\ WithinRadius(u.geometry, r.geometry, 200)}})
            /\ (planning_area_gdf.given /\ r.latitude <= 14700
                   /\ Containing(r.geometry, planning_area_gdf) # {}) =>
                   \E j \in Containing(r.geometry, planning_area_gdf) :
                       r.planning_area = planning_area_gdf.zones[j].name

====
